---- MODULE Spec2Model ----
(***************************************************************************)
(* The Annotorious facade (src/src/annotorious.js): a registry of          *)
(* per-media-type modules, a registry of plugins, and the public API that  *)
(* forwards every call either to the module responsible for an item or to  *)
(* all modules.  The modules and the plugins are collaborators: of a       *)
(* module the model keeps the items it annotates, the annotations it       *)
(* holds, its init/destroy lifecycle and the plugins it was handed, and    *)
(* it logs every operation the facade invokes on a module.                 *)
(***************************************************************************)
EXTENDS Integers, Sequences, FiniteSets, TLC

VARIABLES
  _modules,   \* this._modules: the module registry, in order
  _plugins,   \* this._plugins: the plugin registry, in order
  loaded,     \* whether the page-load event has fired
  mods,       \* the state of each module
  initCalls,  \* the plugins on which initPlugin(self) was called, in order
  lastCall,   \* the facade call made by the last step
  trace,      \* the module operations the last step invoked, in order
  result      \* what the last facade call returned (or threw)

vars == <<_modules, _plugins, loaded, mods, initCalls, lastCall, trace, result>>

\* ---------------------------------------------------------------- bounds

\* At most this many plugins are instantiated successfully.
MaxPlugins == 2
\* The annotation objects the page's scripts pass to the API.
MaxAnnotations == 2

\* ---------------------------------------------------------------- values

\* JavaScript values are records of one shape: a type tag, a string and a
\* number.
Undefined == [t |-> "undefined", v |-> "", n |-> 0]
Str(s) == [t |-> "string", v |-> s, n |-> 0]
Fn(f) == [t |-> "function", v |-> f, n |-> 0]
Bool(b) == [t |-> "boolean", v |-> IF b THEN "true" ELSE "false", n |-> 0]

\* The item URLs of the page.
URLs == {"u1", "u2"}

\* The src of annotation object i: the first two annotate the same item.
SrcOf(i) == IF i <= 2 THEN "u1" ELSE "u2"

\* An annotation object: its identity and its src field.
Annotation(i) == [t |-> "annotation", v |-> SrcOf(i), n |-> i]

Annotations == {Annotation(i) : i \in 1..MaxAnnotations}

\* annotation.src
src(annotation) == Str(annotation.v)

\* A DOM item handed to makeAnnotatable: its media type and its src.
Item(kind, url) == [t |-> kind, v |-> url, n |-> 0]

\* The items of the page: two images, a map and a video.
Items == {Item("img", u) : u \in URLs} \cup {Item("olmap", "u1"), Item("video", "u2")}

\* goog.isString, goog.isFunction and JavaScript truthiness (if (x) ...).
isString(x) == x.t = "string"

isFunction(x) == x.t = "function"

Truthy(x) ==
  CASE x.t = "undefined" -> FALSE
    [] x.t = "string" -> x.v # ""
    [] x.t = "boolean" -> x.v = "true"
    [] OTHER -> TRUE

\* ---------------------------------------------------------------- modules

ModuleNames == {"image", "openlayers"}

\* goog.array.find returns null when no element matches.
Null == "null"

\* A module operation invoked by the facade.
Call(m, op, args) == [mod |-> m, op |-> op, args |-> args]

\* A freshly constructed module.
NewModule ==
  [items |-> {}, annots |-> <<>>, life |-> "new",
   badInit |-> FALSE, badDestroy |-> FALSE, plugins |-> <<>>]

\* module.annotatesItem(item_src)
annotatesItem(ms, m, item_src) == isString(item_src) /\ item_src.v \in ms[m].items

\* module.supports(item)
supports(m, item) ==
  \/ m = "image" /\ item.t = "img"
  \/ m = "openlayers" /\ item.t = "olmap"

\* The images carrying the 'annotatable' CSS class, which the image module's
\* init makes annotatable.
AnnotatableImages == {"u1"}

Remove(s, x) == SelectSeq(s, LAMBDA y : y # x)

\* module.getAnnotations(opt_item_url): the annotations of one item, or all.
moduleGetAnnotations(ms, m, opt_item_url) ==
  IF Truthy(opt_item_url)
    THEN SelectSeq(ms[m].annots, LAMBDA a : a.v = opt_item_url.v)
    ELSE ms[m].annots

\* The effect of one module operation on the state of that module.
ApplyCall(s, c) ==
  CASE c.op = "addAnnotation" ->
         [s EXCEPT !.annots = Append(Remove(Remove(@, c.args[2]), c.args[1]), c.args[1])]
    [] c.op = "removeAnnotation" ->
         [s EXCEPT !.annots = Remove(@, c.args[1])]
    [] c.op = "makeAnnotatable" ->
         [s EXCEPT !.items = @ \cup {c.args[1].v}]
    [] c.op = "init" ->
         [s EXCEPT !.life = "initialised",
                   !.badInit = @ \/ s.life = "initialised",
                   !.items = IF c.mod = "image" THEN @ \cup AnnotatableImages ELSE @]
    [] c.op = "destroy" ->
         [s EXCEPT !.life = "destroyed",
                   !.badDestroy = @ \/ s.life # "initialised",
                   !.items = {},
                   !.annots = <<>>]
    [] c.op = "addPlugin" ->
         [s EXCEPT !.plugins = Append(@, c.args[1].n)]
    [] OTHER -> s

RECURSIVE ApplyCalls(_, _)
ApplyCalls(ms, calls) ==
  IF calls = <<>> THEN ms
  ELSE LET c == Head(calls)
       IN ApplyCalls([ms EXCEPT ![c.mod] = ApplyCall(@, c)], Tail(calls))

\* ---------------------------------------------------------------- facade

\* What a facade call hands back: nothing (undefined), a module's own answer
\* (value), a list of annotations, or a thrown string.  alias names the module
\* whose own array the returned list is ("fresh": a new array); pops counts
\* the caller's later modifications of the returned list.
Result(kind, list, alias) == [kind |-> kind, list |-> list, alias |-> alias, pops |-> 0]

NoResult == Result("undefined", <<>>, "fresh")

\* What a facade operation does: the module operations it invokes, in order,
\* and its result.
Does(calls, res) == [calls |-> calls, res |-> res]

Min(S) == CHOOSE x \in S : \A y \in S : x <= y

\* goog.array.find over the module registry: the first match, or null.
\* hits: the registry positions of the modules that match.
find(hits) == IF hits = {} THEN Null ELSE _modules[Min(hits)]

\* forEach walking the registry from its end.
forEachModule_reversed(op, args) ==
  [i \in 1..Len(_modules) |-> Call(_modules[Len(_modules) + 1 - i], op, args)]

\* goog.array.forEach over the module registry, invoking op(args) on each.
forEachModule(op, args) == [i \in 1..Len(_modules) |-> Call(_modules[i], op, args)]

\* The lookup returning the last module that annotates the item.
_getModuleForItemSrc_last(ms, item_src) ==
  LET hits == {i \in 1..Len(_modules) : annotatesItem(ms, _modules[i], item_src)}
  IN IF hits = {} THEN Null ELSE _modules[CHOOSE i \in hits : \A j \in hits : j <= i]

_getModuleForItemSrc(ms, item_src) ==
  find({i \in 1..Len(_modules) : annotatesItem(ms, _modules[i], item_src)})

\* activateSelector taking its callback from the second argument only.
activateSelector_secondOnly(ms, opt_item_url_or_callback, opt_callback) ==
  LET item_url == IF isString(opt_item_url_or_callback)
                    THEN opt_item_url_or_callback ELSE Undefined
      callback == opt_callback
  IN IF Truthy(item_url)
       THEN LET module == _getModuleForItemSrc(ms, item_url)
            IN IF module # Null
                 THEN Does(<<Call(module, "activateSelector", <<item_url, callback>>)>>, NoResult)
                 ELSE Does(<<>>, NoResult)
       ELSE Does(forEachModule("activateSelector", <<callback>>), NoResult)

activateSelector(ms, opt_item_url_or_callback, opt_callback) ==
  LET item_url == IF isString(opt_item_url_or_callback)
                    THEN opt_item_url_or_callback ELSE Undefined
      callback == IF isString(opt_item_url_or_callback) THEN opt_callback
                  ELSE IF isFunction(opt_item_url_or_callback)
                    THEN opt_item_url_or_callback ELSE Undefined
  IN IF Truthy(item_url)
       THEN LET module == _getModuleForItemSrc(ms, item_url)
            IN IF module # Null
                 THEN Does(<<Call(module, "activateSelector", <<item_url, callback>>)>>, NoResult)
                 ELSE Does(<<>>, NoResult)
       ELSE Does(forEachModule("activateSelector", <<callback>>), NoResult)

addAnnotation(ms, annotation, opt_replace) ==
  LET module == _getModuleForItemSrc(ms, src(annotation))
  IN IF module # Null
       THEN Does(<<Call(module, "addAnnotation", <<annotation, opt_replace>>)>>, NoResult)
       ELSE Does(<<>>, NoResult)

addHandler(type, handler) == Does(forEachModule("addHandler", <<type, handler>>), NoResult)

getActiveSelector(ms, item_url) ==
  LET module == _getModuleForItemSrc(ms, item_url)
  IN IF module # Null
       THEN Does(<<Call(module, "getActiveSelector", <<item_url>>)>>, Result("value", <<>>, "fresh"))
       ELSE Does(<<>>, NoResult)

\* getAnnotations() collecting into the first module's own array instead of a
\* new one.
getAnnotations_shared(ms, opt_item_url, live) ==
  IF Truthy(opt_item_url)
    THEN LET module == _getModuleForItemSrc(ms, opt_item_url)
         IN IF module # Null
              THEN Does(<<Call(module, "getAnnotations", <<opt_item_url>>)>>,
                        Result("list", moduleGetAnnotations(ms, module, opt_item_url),
                               IF live THEN module ELSE "fresh"))
              ELSE Does(<<>>, Result("list", <<>>, "fresh"))
    ELSE LET RECURSIVE extend(_)
             extend(i) == IF i = 0 THEN <<>>
                          ELSE extend(i - 1) \o moduleGetAnnotations(ms, _modules[i], Undefined)
         IN Does(forEachModule("getAnnotations", <<>>),
                 Result("list", extend(Len(_modules)), IF live THEN _modules[1] ELSE "fresh"))

\* live: whether module.getAnnotations hands out the module's own array.
getAnnotations(ms, opt_item_url, live) ==
  IF Truthy(opt_item_url)
    THEN LET module == _getModuleForItemSrc(ms, opt_item_url)
         IN IF module # Null
              THEN Does(<<Call(module, "getAnnotations", <<opt_item_url>>)>>,
                        Result("list", moduleGetAnnotations(ms, module, opt_item_url),
                               IF live THEN module ELSE "fresh"))
              ELSE Does(<<>>, Result("list", <<>>, "fresh"))
    ELSE LET RECURSIVE extend(_)
             extend(i) == IF i = 0 THEN <<>>
                          ELSE extend(i - 1) \o moduleGetAnnotations(ms, _modules[i], Undefined)
         IN Does(forEachModule("getAnnotations", <<>>),
                 Result("list", extend(Len(_modules)), "fresh"))

getAvailableSelectors(ms, item_url) ==
  LET module == _getModuleForItemSrc(ms, item_url)
  IN IF module # Null
       THEN Does(<<Call(module, "getAvailableSelectors", <<item_url>>)>>, Result("value", <<>>, "fresh"))
       ELSE Does(<<>>, Result("list", <<>>, "fresh"))

hideAnnotations(ms, opt_item_url) ==
  IF Truthy(opt_item_url)
    THEN LET module == _getModuleForItemSrc(ms, opt_item_url)
         IN IF module # Null
              THEN Does(<<Call(module, "hideAnnotations", <<opt_item_url>>)>>, NoResult)
              ELSE Does(<<>>, NoResult)
    ELSE Does(forEachModule("hideAnnotations", <<>>), NoResult)

hideSelectionWidget(ms, opt_item_url) ==
  IF Truthy(opt_item_url)
    THEN LET module == _getModuleForItemSrc(ms, opt_item_url)
         IN IF module # Null
              THEN Does(<<Call(module, "hideSelectionWidget", <<opt_item_url>>)>>, NoResult)
              ELSE Does(<<>>, NoResult)
    ELSE Does(forEachModule("hideSelectionWidget", <<>>), NoResult)

highlightAnnotation(ms, annotation) ==
  IF Truthy(annotation)
    THEN LET module == _getModuleForItemSrc(ms, src(annotation))
         IN IF module # Null
              THEN Does(<<Call(module, "highlightAnnotation", <<annotation>>)>>, NoResult)
              ELSE Does(<<>>, NoResult)
    ELSE Does(forEachModule("highlightAnnotation", <<>>), NoResult)

\* makeAnnotatable ignoring an unsupported item.
makeAnnotatable_silent(item) ==
  LET module == find({i \in 1..Len(_modules) : supports(_modules[i], item)})
  IN IF module # Null
       THEN Does(<<Call(module, "makeAnnotatable", <<item>>)>>, NoResult)
       ELSE Does(<<>>, NoResult)

makeAnnotatable(item) ==
  LET module == find({i \in 1..Len(_modules) : supports(_modules[i], item)})
  IN IF module # Null
       THEN Does(<<Call(module, "makeAnnotatable", <<item>>)>>, NoResult)
       ELSE Does(<<>>, Result("throw", <<>>, "fresh"))

removeAnnotation(ms, annotation) ==
  LET module == _getModuleForItemSrc(ms, src(annotation))
  IN IF module # Null
       THEN Does(<<Call(module, "removeAnnotation", <<annotation>>)>>, NoResult)
       ELSE Does(<<>>, NoResult)

\* removeAll: goog.array.forEach over getAnnotations(opt_item_url).  forEach
\* reads the length l once and then visits the indices below l that are
\* still in the array, so a list that is the module's own array shrinks
\* under the loop as removeAnnotation takes elements out of it.
removeAll(ms, opt_item_url, live) ==
  LET got == getAnnotations(ms, opt_item_url, live)
      l == Len(got.res.list)
      arr(cur) == IF got.res.alias = "fresh" THEN got.res.list
                  ELSE moduleGetAnnotations(cur, got.res.alias, opt_item_url)
      RECURSIVE loop(_, _)
      loop(cur, i) ==
        IF i > l THEN <<>>
        ELSE IF i > Len(arr(cur)) THEN loop(cur, i + 1)
        ELSE LET calls == removeAnnotation(cur, arr(cur)[i]).calls
             IN calls \o loop(ApplyCalls(cur, calls), i + 1)
  IN Does(got.calls \o loop(ms, 1), NoResult)

\* reset destroying every module before it initialises any.
reset_twoPasses == Does(forEachModule("destroy", <<>>) \o forEachModule("init", <<>>), NoResult)

reset == Does([k \in 1..(2 * Len(_modules)) |->
                 Call(_modules[(k + 1) \div 2], IF k % 2 = 1 THEN "destroy" ELSE "init", <<>>)],
              NoResult)

addSelector(ms, item_url, selector) ==
  LET module == _getModuleForItemSrc(ms, item_url)
  IN IF module # Null
       THEN Does(<<Call(module, "addSelector", <<item_url, selector>>)>>, NoResult)
       ELSE Does(<<>>, NoResult)

setActiveSelector(ms, item_url, selector) ==
  LET module == _getModuleForItemSrc(ms, item_url)
  IN IF module # Null
       THEN Does(<<Call(module, "setActiveSelector", <<item_url, selector>>)>>, NoResult)
       ELSE Does(<<>>, NoResult)

showAnnotations(ms, opt_item_url) ==
  IF Truthy(opt_item_url)
    THEN LET module == _getModuleForItemSrc(ms, opt_item_url)
         IN IF module # Null
              THEN Does(<<Call(module, "showAnnotations", <<opt_item_url>>)>>, NoResult)
              ELSE Does(<<>>, NoResult)
    ELSE Does(forEachModule("showAnnotations", <<>>), NoResult)

showSelectionWidget(ms, opt_item_url) ==
  IF Truthy(opt_item_url)
    THEN LET module == _getModuleForItemSrc(ms, opt_item_url)
         IN IF module # Null
              THEN Does(<<Call(module, "showSelectionWidget", <<opt_item_url>>)>>, NoResult)
              ELSE Does(<<>>, NoResult)
    ELSE Does(forEachModule("showSelectionWidget", <<>>), NoResult)

setSelectionEnabled(ms, enabled) ==
  IF Truthy(enabled) THEN showSelectionWidget(ms, Undefined)
  ELSE hideSelectionWidget(ms, Undefined)

\* ---------------------------------------------------------------- plugins

\* window['annotorious']['plugin']: the plugin constructors the page defines.
\* Rich defines initPlugin, Plain does not, the constructor of Broken throws,
\* and no constructor is registered under Missing.
PluginNames == {"Rich", "Plain", "Broken", "Missing"}

Instantiates(plugin_name) == plugin_name \in {"Rich", "Plain"}

\* The k-th plugin object constructed.
Plugin(plugin_name, k) == [t |-> "plugin", v |-> plugin_name, n |-> k]

\* if (plugin.initPlugin)
hasInitPlugin(plugin) == plugin.v = "Rich"

\* addPlugin pushing outside the try block: a failed instantiation leaves an
\* undefined entry.
addPlugin_pushAlways(plugins, plugin_name) ==
  IF Instantiates(plugin_name)
    THEN Append(plugins, Plugin(plugin_name, Len(plugins) + 1))
    ELSE Append(plugins, Undefined)

\* addPlugin: the plugin registry after the call; a failed instantiation is
\* caught and logged.
addPlugin(plugins, plugin_name) ==
  IF Instantiates(plugin_name)
    THEN Append(plugins, Plugin(plugin_name, Len(plugins) + 1))
    ELSE plugins

\* The page-load handler: init on every module, then every plugin is handed
\* to every module.
onLoad(plugins) ==
  LET n == Len(_modules)
  IN Does(forEachModule("init", <<>>)
            \o [k \in 1..(Len(plugins) * n) |->
                  Call(_modules[((k - 1) % n) + 1], "addPlugin", <<plugins[((k - 1) \div n) + 1]>>)],
          NoResult)

\* The page-load handler's initPlugin(self) calls, in order.
onLoadInitPlugin(plugins) == SelectSeq(plugins, hasInitPlugin)

\* ---------------------------------------------------------------- state machine

\* The arguments the page's scripts pass.
OptUrls == {Undefined, Str("")} \cup {Str(u) : u \in URLs}

ItemUrls == {Str(u) : u \in URLs}

Callbacks == {Undefined, Fn("cb")}

Selectors == {Str("rect")}

\* new annotorious.Annotorious(): the image module, and the OpenLayers module
\* when the build includes it; no plugins; the page has not loaded.
Init ==
  /\ _modules \in {<<"image">>, <<"image", "openlayers">>}
  /\ _plugins = <<>>
  /\ loaded = FALSE
  /\ mods = [m \in ModuleNames |-> NewModule]
  /\ initCalls = <<>>
  /\ lastCall = [op |-> "new", args |-> <<>>]
  /\ trace = <<>>
  /\ result = NoResult

\* A facade call op(args) that does d.
Facade(op, args, d) ==
  /\ lastCall' = [op |-> op, args |-> args]
  /\ trace' = d.calls
  /\ result' = d.res
  /\ mods' = ApplyCalls(mods, d.calls)
  /\ UNCHANGED <<_modules, _plugins, loaded, initCalls>>

OnLoad ==
  /\ ~loaded
  /\ loaded' = TRUE
  /\ lastCall' = [op |-> "onLoad", args |-> <<>>]
  /\ trace' = onLoad(_plugins).calls
  /\ result' = NoResult
  /\ mods' = ApplyCalls(mods, onLoad(_plugins).calls)
  /\ initCalls' = initCalls \o onLoadInitPlugin(_plugins)
  /\ UNCHANGED <<_modules, _plugins>>

ActivateSelector ==
  \E a1 \in OptUrls \cup {Fn("cb1"), Bool(TRUE)}, a2 \in Callbacks :
    Facade("activateSelector", <<a1, a2>>, activateSelector(mods, a1, a2))

AddAnnotation ==
  \E a \in Annotations, r \in {Undefined} \cup Annotations :
    /\ r # a
    /\ Facade("addAnnotation", <<a, r>>, addAnnotation(mods, a, r))

AddHandler ==
  Facade("addHandler", <<Str("onAnnotationCreated"), Fn("cb")>>,
         addHandler(Str("onAnnotationCreated"), Fn("cb")))

AddPlugin ==
  \E name \in PluginNames :
    /\ Instantiates(name) => Len(_plugins) < MaxPlugins
    /\ _plugins' = addPlugin(_plugins, name)
    /\ lastCall' = [op |-> "addPlugin", args |-> <<Str(name)>>]
    /\ trace' = <<>>
    /\ result' = NoResult
    /\ UNCHANGED <<_modules, loaded, mods, initCalls>>

GetActiveSelector ==
  \E u \in ItemUrls : Facade("getActiveSelector", <<u>>, getActiveSelector(mods, u))

GetAnnotations ==
  \E u \in OptUrls, live \in BOOLEAN :
    Facade("getAnnotations", <<u>>, getAnnotations(mods, u, live))

GetAvailableSelectors ==
  \E u \in ItemUrls : Facade("getAvailableSelectors", <<u>>, getAvailableSelectors(mods, u))

HideAnnotations ==
  \E u \in OptUrls : Facade("hideAnnotations", <<u>>, hideAnnotations(mods, u))

HideSelectionWidget ==
  \E u \in OptUrls : Facade("hideSelectionWidget", <<u>>, hideSelectionWidget(mods, u))

HighlightAnnotation ==
  \E a \in {Undefined} \cup Annotations :
    Facade("highlightAnnotation", <<a>>, highlightAnnotation(mods, a))

MakeAnnotatable ==
  \E item \in Items : Facade("makeAnnotatable", <<item>>, makeAnnotatable(item))

RemoveAll ==
  \E u \in OptUrls, live \in BOOLEAN :
    Facade("removeAll", <<u>>, removeAll(mods, u, live))

RemoveAnnotation ==
  \E a \in Annotations : Facade("removeAnnotation", <<a>>, removeAnnotation(mods, a))

Reset == Facade("reset", <<>>, reset)

AddSelector ==
  \E u \in ItemUrls, sel \in Selectors :
    Facade("addSelector", <<u, sel>>, addSelector(mods, u, sel))

SetActiveSelector ==
  \E u \in ItemUrls, sel \in Selectors :
    Facade("setActiveSelector", <<u, sel>>, setActiveSelector(mods, u, sel))

SetSelectionEnabled ==
  \E enabled \in BOOLEAN :
    Facade("setSelectionEnabled", <<Bool(enabled)>>, setSelectionEnabled(mods, Bool(enabled)))

ShowAnnotations ==
  \E u \in OptUrls : Facade("showAnnotations", <<u>>, showAnnotations(mods, u))

ShowSelectionWidget ==
  \E u \in OptUrls : Facade("showSelectionWidget", <<u>>, showSelectionWidget(mods, u))

\* The caller pops the last element off the list the last call returned; a
\* list that is a module's own array loses it in the module too.
CallerPopsResult ==
  /\ result.kind = "list"
  /\ result.list # <<>>
  /\ LET removed == result.list[Len(result.list)]
     IN /\ result' = [result EXCEPT !.list = SubSeq(@, 1, Len(@) - 1), !.pops = @ + 1]
        /\ mods' = IF result.alias = "fresh" THEN mods
                   ELSE [mods EXCEPT ![result.alias].annots = Remove(@, removed)]
  /\ UNCHANGED <<_modules, _plugins, loaded, initCalls, lastCall, trace>>

\* The API of the facade as the page's scripts call it once its plugins are
\* registered, and the page-load event.
Next ==
  \/ OnLoad
  \/ ActivateSelector
  \/ AddAnnotation
  \/ AddHandler
  \/ GetActiveSelector
  \/ GetAnnotations
  \/ GetAvailableSelectors
  \/ HideAnnotations
  \/ HideSelectionWidget
  \/ HighlightAnnotation
  \/ MakeAnnotatable
  \/ RemoveAll
  \/ RemoveAnnotation
  \/ Reset
  \/ AddSelector
  \/ SetActiveSelector
  \/ SetSelectionEnabled
  \/ ShowAnnotations
  \/ ShowSelectionWidget
  \/ CallerPopsResult

Spec == Init /\ [][Next]_vars

\* The registries and the lifecycle: plugin registration, the page-load
\* event, reset and makeAnnotatable, in every order.
LifecycleNext ==
  \/ OnLoad
  \/ AddPlugin
  \/ Reset
  \/ MakeAnnotatable

LifecycleSpec == Init /\ [][LifecycleNext]_vars

\* The browser fires the page-load event, and the page's scripts never stop
\* calling the API.
FairLifecycleSpec == LifecycleSpec /\ WF_vars(OnLoad) /\ WF_vars(LifecycleNext)

\* ---------------------------------------------------------------- properties

\* An item URL: a non-empty string.
IsUrl(x) == x.t = "string" /\ x.v # ""

\* The registry positions of the modules whose annotatesItem(url) is true.
Responsible(url) == {i \in 1..Len(_modules) : annotatesItem(mods, _modules[i], url)}

First(S) == CHOOSE i \in S : \A j \in S : i <= j

\* The item a call targets: the src of its annotation, or its URL argument.
ItemOf(c) ==
  IF c.op \in {"addAnnotation", "removeAnnotation", "highlightAnnotation"}
    THEN src(c.args[1]) ELSE c.args[1]

ItemTargeted(c) ==
  \/ c.op \in {"addAnnotation", "removeAnnotation", "getActiveSelector",
               "getAvailableSelectors", "setActiveSelector", "addSelector"}
  \/ /\ c.op \in {"activateSelector", "getAnnotations", "showAnnotations", "hideAnnotations",
                  "showSelectionWidget", "hideSelectionWidget"}
     /\ IsUrl(c.args[1])
  \/ c.op = "highlightAnnotation" /\ c.args[1].t = "annotation"

\* C1: every item-targeted call is forwarded to exactly one module, the first
\* in registry order whose annotatesItem(url) is true, as the operation of
\* the same name; when no module annotates the item no module operation is
\* invoked and nothing is thrown.
C1_ItemCallsGoToFirstResponsible ==
  ItemTargeted(lastCall) =>
    LET R == Responsible(ItemOf(lastCall))
    IN /\ result.kind # "throw"
       /\ IF R = {} THEN trace = <<>>
          ELSE /\ Len(trace) = 1
               /\ trace[1].mod = _modules[First(R)]
               /\ trace[1].op = lastCall.op

\* Both modules annotate the item and an annotation was added to it.
C1_Witness ==
  /\ lastCall.op = "addAnnotation"
  /\ Cardinality(Responsible(ItemOf(lastCall))) = 2
  /\ Len(trace) = 1

ForAllModules(c) ==
  \/ c.op = "addHandler"
  \/ /\ c.op \in {"activateSelector", "getAnnotations", "showAnnotations", "hideAnnotations",
                  "showSelectionWidget", "hideSelectionWidget", "highlightAnnotation"}
     /\ ~IsUrl(c.args[1])
     /\ c.args[1].t # "annotation"

\* C2: a call that names no item (and every addHandler) invokes the operation
\* of the same name on every module of the registry exactly once, in registry
\* order, whatever the modules' annotatesItem answers are.
C2_NoItemCallsGoToAllModules ==
  ForAllModules(lastCall) =>
    /\ Len(trace) = Len(_modules)
    /\ \A i \in 1..Len(_modules) :
         trace[i].mod = _modules[i] /\ trace[i].op = lastCall.op

\* hideAnnotations() reached both modules although only the second one
\* annotates an item.
C2_Witness ==
  /\ lastCall.op = "hideAnnotations"
  /\ lastCall.args[1] = Undefined
  /\ Len(trace) = 2
  /\ mods["image"].items = {}
  /\ mods["openlayers"].items # {}

\* The registry positions of the modules that support the item.
Supporting(item) == {i \in 1..Len(_modules) : supports(_modules[i], item)}

\* C3: makeAnnotatable(item) throws exactly when no module supports the
\* item, and then invokes nothing and leaves the modules and both registries
\* as they were; otherwise it invokes makeAnnotatable on the first supporting
\* module, only, and does not throw.
C3_MakeAnnotatableThrowsIffUnsupported ==
  [][lastCall'.op = "makeAnnotatable" =>
       LET item == lastCall'.args[1]
           S == Supporting(item)
       IN /\ (result'.kind = "throw") <=> (S = {})
          /\ S = {} => trace' = <<>> /\ UNCHANGED <<_modules, _plugins, mods>>
          /\ S # {} => /\ trace' = <<Call(_modules[First(S)], "makeAnnotatable", <<item>>)>>
                       /\ UNCHANGED <<_modules, _plugins>>]_vars

\* makeAnnotatable threw on a map in a build without the OpenLayers module,
\* with a plugin registered.
C3_Witness ==
  /\ lastCall.op = "makeAnnotatable"
  /\ lastCall.args[1].t = "olmap"
  /\ result.kind = "throw"
  /\ _plugins # <<>>

\* C4: addPlugin never throws and touches no module; a failed instantiation
\* leaves the plugin registry as it was, a successful one appends exactly one
\* plugin, of the given name, after the earlier entries.
C4_AddPluginSwallowsFailure ==
  [][lastCall'.op = "addPlugin" =>
       /\ result'.kind # "throw"
       /\ trace' = <<>>
       /\ UNCHANGED <<_modules, mods, initCalls>>
       /\ IF lastCall'.args[1].v \in {"Broken", "Missing"}
            THEN _plugins' = _plugins
            ELSE /\ Len(_plugins') = Len(_plugins) + 1
                 /\ SubSeq(_plugins', 1, Len(_plugins)) = _plugins
                 /\ _plugins'[Len(_plugins')].v = lastCall'.args[1].v
                 /\ \A k \in 1..Len(_plugins) : _plugins[k] # _plugins'[Len(_plugins')]]_vars

\* A plugin whose constructor throws was added to a non-empty registry.
C4_Witness ==
  /\ lastCall.op = "addPlugin"
  /\ lastCall.args[1] = Str("Broken")
  /\ Len(_plugins) = 1

\* C5: after removeAll() without an item URL no module of the registry holds
\* an annotation, so getAnnotations() is empty.
C5_RemoveAllRemovesEverything ==
  (lastCall.op = "removeAll" /\ lastCall.args[1] = Undefined) =>
    \A i \in 1..Len(_modules) : mods[_modules[i]].annots = <<>>

RECURSIVE AllAnnotations(_)
AllAnnotations(i) ==
  IF i > Len(_modules) THEN <<>>
  ELSE mods[_modules[i]].annots \o AllAnnotations(i + 1)

\* What getAnnotations has just returned, before the caller touches it.
C6_Returned ==
  (lastCall.op = "getAnnotations" /\ result.pops = 0) =>
    /\ result.kind = "list"
    /\ IF IsUrl(lastCall.args[1])
         THEN LET R == Responsible(lastCall.args[1])
              IN IF R = {} THEN result.list = <<>>
                 ELSE result.list =
                        SelectSeq(mods[_modules[First(R)]].annots,
                                  LAMBDA a : a.v = lastCall.args[1].v)
         ELSE result.list = AllAnnotations(1)

\* C6: getAnnotations(url) returns the annotations the responsible module
\* holds for the item, or the empty list when no module is responsible;
\* getAnnotations() returns every module's annotations concatenated in
\* registry order, in a list the caller can modify without changing any
\* module.
C6_GetAnnotations ==
  [][/\ C6_Returned'
     /\ (/\ lastCall.op = "getAnnotations"
         /\ ~IsUrl(lastCall.args[1])
         /\ result'.pops > result.pops) => mods' = mods]_vars

\* The caller popped an element off the list of all annotations while both
\* modules hold annotations.
C6_Witness ==
  /\ lastCall.op = "getAnnotations"
  /\ lastCall.args[1] = Undefined
  /\ result.pops > 0
  /\ mods["image"].annots # <<>>
  /\ mods["openlayers"].annots # <<>>

\* Plugin k was initialised (when it defines initPlugin) and handed to every
\* module of the registry.
Initialised(k) ==
  /\ hasInitPlugin(_plugins[k]) => \E j \in 1..Len(initCalls) : initCalls[j] = _plugins[k]
  /\ \A i \in 1..Len(_modules) :
       \E j \in 1..Len(mods[_modules[i]].plugins) : mods[_modules[i]].plugins[j] = k

\* C7: once the page has loaded, every plugin of the registry, whenever it
\* was added, is eventually initialised and handed to every module.
C7_EveryPluginIsInitialised ==
  \A k \in 1..MaxPlugins :
    [](loaded /\ Len(_plugins) >= k => <>(Len(_plugins) >= k /\ Initialised(k)))

\* C8: reset() invokes destroy and then init on each module, module by module
\* in registry order, and nothing else; the registries stay as they were.
C8_ResetDestroysThenInits ==
  [][lastCall'.op = "reset" =>
       /\ Len(trace') = 2 * Len(_modules)
       /\ \A i \in 1..Len(_modules) :
            /\ trace'[2 * i - 1] = Call(_modules[i], "destroy", <<>>)
            /\ trace'[2 * i] = Call(_modules[i], "init", <<>>)
       /\ UNCHANGED <<_modules, _plugins, initCalls>>]_vars

\* reset() ran over two modules with a plugin registered.
C8_Witness ==
  /\ lastCall.op = "reset"
  /\ Len(_modules) = 2
  /\ _plugins # <<>>
  /\ Len(trace) = 4

\* The module operations a call to activateSelector made, as the claim has
\* them for the item form and the all-modules form.
OnItem(url, callback) ==
  LET R == Responsible(url)
  IN IF R = {} THEN trace = <<>>
     ELSE trace = <<Call(_modules[First(R)], "activateSelector", <<url, callback>>)>>

OnAll(callback) ==
  /\ Len(trace) = Len(_modules)
  /\ \A i \in 1..Len(_modules) : trace[i] = Call(_modules[i], "activateSelector", <<callback>>)

HandedTo(callback) ==
  \E i \in 1..Len(trace) : \E j \in 1..Len(trace[i].args) : trace[i].args[j] = callback

\* C9 as stated: every string first argument activates the selector on that
\* item only, a function activates it on all modules with that callback,
\* anything else on all modules without one; a supplied callback always
\* reaches a module.
C9_AsStated ==
  lastCall.op = "activateSelector" =>
    LET a1 == lastCall.args[1]
        a2 == lastCall.args[2]
    IN /\ isString(a1) => OnItem(a1, a2)
       /\ isFunction(a1) => OnAll(a1)
       /\ (~isString(a1) /\ ~isFunction(a1)) => OnAll(Undefined)
       /\ isFunction(a1) => HandedTo(a1)
       /\ isFunction(a2) => HandedTo(a2)

\* C9 amended: a non-empty string first argument activates the selector on
\* the responsible module only (on none when no module is responsible), with
\* the second argument as callback; the empty string activates it on all
\* modules with the second argument as callback; a function on all modules
\* with that function; anything else on all modules with no callback.  A
\* function given first reaches every module; a callback given second reaches
\* a module exactly when the first argument is the empty string or a URL that
\* some module is responsible for.
C9_ActivateSelectorDispatch ==
  lastCall.op = "activateSelector" =>
    LET a1 == lastCall.args[1]
        a2 == lastCall.args[2]
    IN /\ IsUrl(a1) => OnItem(a1, a2)
       /\ a1 = Str("") => OnAll(a2)
       /\ isFunction(a1) => OnAll(a1) /\ HandedTo(a1)
       /\ (~isString(a1) /\ ~isFunction(a1)) => OnAll(Undefined)
       /\ isFunction(a2) =>
            (HandedTo(a2) <=> (a1 = Str("") \/ (IsUrl(a1) /\ Responsible(a1) # {})))

\* activateSelector("", cb) reached both modules.
C9_Witness ==
  /\ lastCall.op = "activateSelector"
  /\ lastCall.args = <<Str(""), Fn("cb")>>
  /\ Len(trace) = 2
  /\ HandedTo(Fn("cb"))

\* C10: no module is initialised twice without a destroy in between, and no
\* module is destroyed before it was initialised.
C10_LifecycleAlternates ==
  \A i \in 1..Len(_modules) :
    ~mods[_modules[i]].badInit /\ ~mods[_modules[i]].badDestroy

====
